---- MODULE Spec2Model ----
(***************************************************************************)
(* LRU cache of src/cache.hpp (template class Cache).                      *)
(*                                                                         *)
(* State: the two std::map members cache (key -> (value, age)) and ages    *)
(* (age -> key), the age counter last_age, capacity and the hit/miss       *)
(* counters.  One action per public member function; every action models   *)
(* the whole member function, trim_to_capacity included.                   *)
(*                                                                         *)
(* age_type is an unsigned integer type: last_age + 1 is computed modulo   *)
(* age_mod, the number of values of age_type.  Spec builds the cache with  *)
(* a narrow age_type (AgeMod values, a stand-in for 2^64) so that the      *)
(* overflow branch of get and insert is reachable; ScenarioSpec builds it  *)
(* with a wider one (WideAgeMod values) and makes one fixed sequence of    *)
(* calls on it, as src/test.cpp does.                                      *)
(*                                                                         *)
(* The overflow branch of get uses its iterator after cache.clear () has   *)
(* invalidated it: undefined behaviour.  What builds make of it is a       *)
(* choice the model leaves open: the call returns (the heap possibly       *)
(* damaged by the store into the freed node, so that a later call that     *)
(* uses the allocator may abort), or the call aborts.  After an abort     *)
(* there is no Cache left and no call is made any more.  What is said of   *)
(* the result of a call is said of the calls that return.                  *)
(***************************************************************************)
EXTENDS Integers, Sequences, FiniteSets, TLC

\* ------------------------------------------------------------------ bounds
\* Keys are 1..NumKeys, values 1..NumValues (both int in src/test.cpp).
NumKeys == 3
NumValues == 2
\* age_type wraps modulo AgeMod (2^64 in the source, narrow here).
AgeMod == 4
\* Capacities handed to the constructor and to set_capacity are 0..MaxCap.
MaxCap == 2
\* At most MaxGets calls of get are made (hits + misses stays bounded).
MaxGets == 3
\* ScenarioSpec: age_type has WideAgeMod values (no overflow within the
\* scenario), and its four keys are drawn from 1..(NumKeys + 1).
WideAgeMod == 8

Keys == 1..NumKeys
\* The keys of Spec and of ScenarioSpec together.
AllKeys == 1..(NumKeys + 1)
Values == 1..NumValues
AgeVals == 0..(AgeMod - 1)
Caps == 0..MaxCap

VARIABLES
    cache,      \* cache_type cache: key -> [value, age]
    ages,       \* std::map<age_type, key_type> ages: age -> key
    last_age,   \* age_type last_age
    capacity,   \* size_t capacity
    hits,       \* unsigned long hits
    misses,     \* unsigned long misses
    op,         \* history: the call that returned last, with its results
    last_value, \* history: key -> value of its latest insert (0: not live)
    ins_run,    \* history: the inserts made since cache was last empty
    get_calls,  \* history: the calls of get that returned since construction
    age_mod,    \* the number of values of age_type (fixed by the build)
    lru,        \* history: the live keys, least recently inserted or hit first
    ref,        \* history: the reference LRU list run on the same calls
    scenario,   \* ScenarioSpec: the keys of the scenario and the calls made
    status      \* the process: "ok", "damaged" (a get has used its iterator
                \* after cache.clear ()), or "aborted"

vars == <<cache, ages, last_age, capacity, hits, misses,
          op, last_value, ins_run, get_calls, age_mod, lru, ref, scenario,
          status>>

\* ----------------------------------------------------------- std::map
\* A std::map is a function whose DOMAIN is the set of its keys.
EmptyMap == [x \in {} |-> 0]

\* std::map::erase(key): removes the element with that key, if any.
MapErase(m, k) == [x \in (DOMAIN m) \ {k} |-> m[x]]

\* std::map::insert(pair): adds the element unless the key is already there.
MapInsert(m, k, v) ==
    IF k \in DOMAIN m THEN m
    ELSE [x \in (DOMAIN m) \cup {k} |-> IF x = k THEN v ELSE m[x]]

\* Assignment through a valid iterator it (it->second = v), it->first = k.
MapAssign(m, k, v) == [x \in DOMAIN m |-> IF x = k THEN v ELSE m[x]]

\* std::map::size().
MapSize(m) == Cardinality(DOMAIN m)

\* ages.begin()->first: the smallest age of a non-empty ages map.
MapBeginKey(m) == CHOOSE a \in DOMAIN m : \A b \in DOMAIN m : a <= b

\* last_age + 1 in age_type.
NextAge(a) == (a + 1) % age_mod

\* --------------------------------------------------- trim_to_capacity
\* while (cache.size () > capacity): erase the key of ages.begin () from
\* cache and ages.begin () from ages.  evicted lists the keys that
\* cache.erase actually removed, in order.  ages.begin () of an empty ages is
\* end (): dereferencing it is undefined; the result then carries ub = TRUE
\* and the maps as they were when it happened.
RECURSIVE TrimLoop(_, _, _, _)
TrimLoop(c, a, cap, ev) ==
    IF MapSize(c) > cap
    THEN IF DOMAIN a = {}
         THEN [cache |-> c, ages |-> a, evicted |-> ev, ub |-> TRUE]
         ELSE LET first == MapBeginKey(a)
                  k == a[first]
              IN  TrimLoop(MapErase(c, k), MapErase(a, first), cap,
                           IF k \in DOMAIN c THEN Append(ev, k) ELSE ev)
    ELSE [cache |-> c, ages |-> a, evicted |-> ev, ub |-> FALSE]

\* Mutant: "if" where the source has "while" (at most one entry evicted).
trim_once(c, a, cap) ==
    IF MapSize(c) > cap /\ DOMAIN a # {}
    THEN LET first == MapBeginKey(a)
             k == a[first]
         IN  [cache |-> MapErase(c, k), ages |-> MapErase(a, first),
              evicted |-> IF k \in DOMAIN c THEN <<k>> ELSE << >>,
              ub |-> FALSE]
    ELSE [cache |-> c, ages |-> a, evicted |-> << >>, ub |-> FALSE]

\* Mutant: cache.erase is handed the age of ages.begin () where the source
\* hands it the key (ages_it->first for ages_it->second).
RECURSIVE TrimByAgeLoop(_, _, _, _)
TrimByAgeLoop(c, a, cap, ev) ==
    IF MapSize(c) > cap
    THEN IF DOMAIN a = {}
         THEN [cache |-> c, ages |-> a, evicted |-> ev, ub |-> TRUE]
         ELSE LET first == MapBeginKey(a)
              IN  TrimByAgeLoop(MapErase(c, first), MapErase(a, first), cap,
                      IF first \in DOMAIN c THEN Append(ev, first) ELSE ev)
    ELSE [cache |-> c, ages |-> a, evicted |-> ev, ub |-> FALSE]

trim_by_age(c, a, cap) == TrimByAgeLoop(c, a, cap, << >>)

trim_to_capacity(c, a, cap) == TrimLoop(c, a, cap, << >>)

\* The elements (age, key) that trimming erased from ages: those of a, the
\* map before the loop, that are not in b, the map after it.
Trimmed(a, b) ==
    {[age |-> x, key |-> a[x]] : x \in (DOMAIN a) \ (DOMAIN b)}

\* ----------------------------------------------------------------- get
\* Mutant: the hit is not counted (hits += 1 left out).
get_hit_uncounted(key) ==
    LET new_last_age == NextAge(last_age)
        wrap == new_last_age < last_age
        c1 == IF wrap THEN EmptyMap ELSE cache
        a1 == IF wrap THEN EmptyMap ELSE ages
        a2 == MapInsert(IF wrap THEN a1 ELSE MapErase(a1, cache[key].age),
                        new_last_age, key)
        c2 == IF wrap THEN c1
              ELSE MapAssign(c1, key,
                       [value |-> cache[key].value, age |-> new_last_age])
    IN  [cache |-> c2, ages |-> a2, last_age |-> new_last_age,
         hits |-> hits, misses |-> misses,
         ret |-> TRUE, out |-> cache[key].value, wrap |-> wrap,
         ub |-> wrap]

\* Mutant: the new age is used but not stored (last_age = new_last_age left
\* out).
get_hit_forgets_age(key) ==
    LET new_last_age == NextAge(last_age)
        wrap == new_last_age < last_age
        c1 == IF wrap THEN EmptyMap ELSE cache
        a1 == IF wrap THEN EmptyMap ELSE ages
        a2 == MapInsert(IF wrap THEN a1 ELSE MapErase(a1, cache[key].age),
                        new_last_age, key)
        c2 == IF wrap THEN c1
              ELSE MapAssign(c1, key,
                       [value |-> cache[key].value, age |-> new_last_age])
    IN  [cache |-> c2, ages |-> a2, last_age |-> last_age,
         hits |-> hits + 1, misses |-> misses,
         ret |-> TRUE, out |-> cache[key].value, wrap |-> wrap,
         ub |-> wrap]

\* Mutant: the hit does not refresh the entry's age (the erase and insert on
\* ages and the store of the new age left out).
get_hit_keeps_age(key) ==
    LET new_last_age == NextAge(last_age)
        wrap == new_last_age < last_age
    IN  [cache |-> IF wrap THEN EmptyMap ELSE cache,
         ages |-> IF wrap THEN EmptyMap ELSE ages,
         last_age |-> new_last_age,
         hits |-> hits + 1, misses |-> misses,
         ret |-> TRUE, out |-> cache[key].value, wrap |-> wrap,
         ub |-> wrap]

\* Cache::get, the branch it != cache.end (), when the call returns.  In the
\* overflow branch cache.clear () invalidates the iterator it, and the call
\* goes on to use it (ub): it->second.second then yields whatever the freed
\* node holds, and ages.erase of it finds nothing, ages having just been
\* cleared; the store through it lands in the freed node and changes
\* neither map.  *value was stored before the purge.
get_hit(key) ==
    LET new_last_age == NextAge(last_age)
        wrap == new_last_age < last_age
        c1 == IF wrap THEN EmptyMap ELSE cache
        a1 == IF wrap THEN EmptyMap ELSE ages
        a2 == MapInsert(IF wrap THEN a1 ELSE MapErase(a1, cache[key].age),
                        new_last_age, key)
        c2 == IF wrap THEN c1
              ELSE MapAssign(c1, key,
                       [value |-> cache[key].value, age |-> new_last_age])
    IN  [cache |-> c2, ages |-> a2, last_age |-> new_last_age,
         hits |-> hits + 1, misses |-> misses,
         ret |-> TRUE, out |-> cache[key].value, wrap |-> wrap,
         ub |-> wrap]

\* Mutant: a miss advances the age counter as a hit does.
get_miss_ages ==
    [cache |-> cache, ages |-> ages, last_age |-> NextAge(last_age),
     hits |-> hits, misses |-> misses + 1,
     ret |-> FALSE, out |-> 0, wrap |-> FALSE, ub |-> FALSE]

\* Cache::get, the branch it == cache.end (): nothing is stored through
\* value (out is 0).
get_miss ==
    [cache |-> cache, ages |-> ages, last_age |-> last_age,
     hits |-> hits, misses |-> misses + 1,
     ret |-> FALSE, out |-> 0, wrap |-> FALSE, ub |-> FALSE]

\* Mutant: the lookup is cache[key], which creates the entry on a miss.
get_creates(key) ==
    IF key \in DOMAIN cache THEN get_hit(key)
    ELSE [get_miss EXCEPT
            !.cache = MapInsert(cache, key, [value |-> 0, age |-> 0])]

\* Cache::get (key, value *).
get(key) ==
    IF key \in DOMAIN cache THEN get_hit(key) ELSE get_miss

\* -------------------------------------------------------------- insert
\* Cache::insert, the branch it == cache.end (): a new element in both maps.
insert_absent(c, a, key, value, age) ==
    [cache |-> MapInsert(c, key, [value |-> value, age |-> age]),
     ages |-> MapInsert(a, age, key)]

\* Mutant: the stored value is not overwritten (it->second.first = value
\* left out).
insert_present_keeps_value(c, a, key, value, age) ==
    [cache |-> MapAssign(c, key, [value |-> c[key].value, age |-> age]),
     ages |-> MapInsert(MapErase(a, c[key].age), age, key)]

\* Mutant: the stale age stays in the reverse index (ages.erase left out).
insert_present_keeps_stale(c, a, key, value, age) ==
    [cache |-> MapAssign(c, key, [value |-> value, age |-> age]),
     ages |-> MapInsert(a, age, key)]

\* Cache::insert, the branch it != cache.end (): the stale age is erased,
\* the new one inserted, value and age of the element overwritten.
insert_present(c, a, key, value, age) ==
    [cache |-> MapAssign(c, key, [value |-> value, age |-> age]),
     ages |-> MapInsert(MapErase(a, c[key].age), age, key)]

\* Mutant: no overflow branch (the age counter wraps, the maps are kept).
insert_no_purge(key, value) ==
    LET new_last_age == NextAge(last_age)
        u == IF key \notin DOMAIN cache
             THEN insert_absent(cache, ages, key, value, new_last_age)
             ELSE insert_present(cache, ages, key, value, new_last_age)
        t == trim_to_capacity(u.cache, u.ages, capacity)
    IN  [cache |-> t.cache, ages |-> t.ages, last_age |-> new_last_age,
         evicted |-> t.evicted, trimmed |-> Trimmed(u.ages, t.ages),
         ub |-> t.ub, wrap |-> new_last_age < last_age]

\* Cache::insert (key, value), trim_to_capacity included.
insert(key, value) ==
    LET new_last_age == NextAge(last_age)
        wrap == new_last_age < last_age
        c1 == IF wrap THEN EmptyMap ELSE cache
        a1 == IF wrap THEN EmptyMap ELSE ages
        u == IF key \notin DOMAIN c1
             THEN insert_absent(c1, a1, key, value, new_last_age)
             ELSE insert_present(c1, a1, key, value, new_last_age)
        t == trim_to_capacity(u.cache, u.ages, capacity)
    IN  [cache |-> t.cache, ages |-> t.ages, last_age |-> new_last_age,
         evicted |-> t.evicted, trimmed |-> Trimmed(u.ages, t.ages),
         ub |-> t.ub, wrap |-> wrap]

\* Mutant: the reverse index is not emptied (ages.clear () left out).
clear_keeps_ages ==
    [cache |-> EmptyMap, ages |-> ages, last_age |-> 0,
     capacity |-> capacity, hits |-> hits, misses |-> misses]

\* Mutant: the age counter is not reset (last_age = 0 left out).
clear_keeps_age ==
    [cache |-> EmptyMap, ages |-> EmptyMap, last_age |-> last_age,
     capacity |-> capacity, hits |-> hits, misses |-> misses]

\* --------------------------------------------------------------- clear
\* Cache::clear ().
clear ==
    [cache |-> EmptyMap, ages |-> EmptyMap, last_age |-> 0,
     capacity |-> capacity, hits |-> hits, misses |-> misses]

\* -------------------------------------------------------- set_capacity
\* Mutant: the new capacity is stored but nothing is trimmed
\* (trim_to_capacity () left out).
set_capacity_lazy(new_cap) ==
    [cache |-> cache, ages |-> ages, capacity |-> new_cap,
     evicted |-> << >>, trimmed |-> {}, ub |-> FALSE]

\* Cache::set_capacity (new_cap), trim_to_capacity included.
set_capacity(new_cap) ==
    LET t == trim_to_capacity(cache, ages, new_cap)
    IN  [cache |-> t.cache, ages |-> t.ages, capacity |-> new_cap,
         evicted |-> t.evicted, trimmed |-> Trimmed(ages, t.ages),
         ub |-> t.ub]

\* Cache::get_capacity ().
get_capacity == capacity

\* Cache::get_stats (): hits first, misses second.
get_stats == <<hits, misses>>

\* ------------------------------------------------------------- history
\* The record of a call: its name and arguments (0: none), what it returned
\* (ret: get's bool; out: the value get stored through its pointer, 0 when it
\* stored nothing, or get_capacity's result; stats: get_stats' pair), the keys
\* its trimming removed from cache, the elements its trimming removed from
\* ages, whether it took the overflow branch, whether its behaviour was
\* undefined (its trimming dereferenced ages.begin () of an empty ages, or
\* it used get's iterator after cache.clear ()), and cache.size () when it
\* was called.  A call that aborted is recorded under its name followed by
\* " aborted", with its arguments and nothing else.
Call(name) ==
    [name |-> name, key |-> 0, value |-> 0, ret |-> FALSE, out |-> 0,
     stats |-> <<0, 0>>, evicted |-> << >>, trimmed |-> {},
     wrap |-> FALSE, ub |-> FALSE, before |-> MapSize(cache)]

SeqRange(s) == {s[i] : i \in 1..Len(s)}

NoRun == [valid |-> FALSE, keys |-> << >>, wrapped |-> FALSE]
FreshRun == [valid |-> TRUE, keys |-> << >>, wrapped |-> FALSE]

\* The run of inserts of pairwise distinct keys made since the cache was
\* last empty (cache.size () = 0, whatever ages holds), with no get, clear or
\* set_capacity in between; wrapped tells whether one of these inserts took
\* the overflow branch.  c is cache after the call.
RunAfter(name, key, wrap, c) ==
    IF DOMAIN c = {} THEN FreshRun
    ELSE IF name = "insert" /\ ins_run.valid /\ key \notin SeqRange(ins_run.keys)
    THEN [valid |-> TRUE, keys |-> Append(ins_run.keys, key),
          wrapped |-> ins_run.wrapped \/ wrap]
    ELSE NoRun

\* For every key live in c (cache after the call), the value handed to the
\* latest insert of that key since it became live; 0 for a key not live.
ValuesAfter(name, key, value, c) ==
    [k \in AllKeys |->
        IF k \notin DOMAIN c THEN 0
        ELSE IF name = "insert" /\ k = key THEN value
        ELSE last_value[k]]

\* The live keys in the order of their latest insert or hit, the least
\* recently used first: the call's key moves to the back when the call is an
\* insert or a get that hit, and keys no longer in c (cache after the call)
\* drop out.
LruAfter(name, key, ret, c) ==
    LET used == name = "insert" \/ (name = "get" /\ ret)
        moved == IF used
                 THEN Append(SelectSeq(lru, LAMBDA k : k # key), key)
                 ELSE lru
    IN  SelectSeq(moved, LAMBDA k : k \in DOMAIN c)

\* ------------------------------------------------- reference LRU list
\* The reference model: a list of (key, value) pairs, least recently used
\* first, with its own hit and miss counters and the result of its latest
\* lookup.  ok tells that no call so far took the overflow branch; once one
\* has, the reference is no longer followed.
RefInit ==
    [ok |-> TRUE, list |-> << >>, hits |-> 0, misses |-> 0,
     ret |-> FALSE, out |-> 0]
RefDead ==
    [ok |-> FALSE, list |-> << >>, hits |-> 0, misses |-> 0,
     ret |-> FALSE, out |-> 0]

RefHas(list, key) == \E i \in 1..Len(list) : list[i].key = key
RefValue(list, key) ==
    list[CHOOSE i \in 1..Len(list) : list[i].key = key].value

\* Move or append key to the back of the list, with value.
RefTouch(list, key, value) ==
    Append(SelectSeq(list, LAMBDA e : e.key # key),
           [key |-> key, value |-> value])

\* Drop from the front while the list is longer than cap.
RefDrop(list, cap) ==
    IF Len(list) > cap
    THEN SubSeq(list, Len(list) - cap + 1, Len(list))
    ELSE list

\* The reference after the call name (key, value); cap is the capacity in
\* force when the call trims.
RefAfter(name, key, value, wrap, cap) ==
    IF ~ref.ok \/ wrap THEN RefDead
    ELSE IF name = "insert"
    THEN [ref EXCEPT !.list = RefDrop(RefTouch(ref.list, key, value), cap),
                     !.ret = FALSE, !.out = 0]
    ELSE IF name = "get" /\ RefHas(ref.list, key)
    THEN [ref EXCEPT !.list = RefTouch(ref.list, key, RefValue(ref.list, key)),
                     !.hits = @ + 1,
                     !.ret = TRUE, !.out = RefValue(ref.list, key)]
    ELSE IF name = "get"
    THEN [ref EXCEPT !.misses = @ + 1, !.ret = FALSE, !.out = 0]
    ELSE IF name = "clear"
    THEN [ref EXCEPT !.list = << >>, !.ret = FALSE, !.out = 0]
    ELSE IF name = "set_capacity"
    THEN [ref EXCEPT !.list = RefDrop(ref.list, cap),
                     !.ret = FALSE, !.out = 0]
    ELSE ref

\* ------------------------------------------------------------ scenario
\* The scenario is six calls on four pairwise distinct keys A, B, C, D
\* (scenario.keys[1..4]); scenario.pc counts the calls made.  Spec runs no
\* scenario.
ScenarioKeys == 1..(NumKeys + 1)
NoScenario == [keys |-> << >>, pc |-> 0]
ScenarioCalls ==
    << [name |-> "insert", key |-> 1, value |-> 1],
       [name |-> "insert", key |-> 2, value |-> 2],
       [name |-> "insert", key |-> 3, value |-> 3],
       [name |-> "get",    key |-> 1, value |-> 0],
       [name |-> "get",    key |-> 2, value |-> 0],
       [name |-> "insert", key |-> 4, value |-> 4] >>

\* ------------------------------------------------- undefined behaviour
\* What a call may come to.  uses_heap tells whether the call allocates or
\* frees a map node: on a heap that an earlier get may have damaged, such a
\* call returns or aborts.  No call is made once the process has aborted.
CallOutcomes(uses_heap) ==
    IF status = "aborted" THEN {}
    ELSE IF status = "damaged" /\ uses_heap THEN {"returns", "aborts"}
    ELSE {"returns"}

\* What get (key) may come to.  A hit through the overflow branch reads
\* and writes through the iterator that cache.clear () invalidated: the call
\* returns, having stored into a freed node, or aborts.  Any other hit erases
\* and inserts a node of ages; a miss uses no allocator.
GetOutcomes(key) ==
    IF status = "aborted" THEN {}
    ELSE IF key \in DOMAIN cache /\ NextAge(last_age) < last_age
    THEN {"returns", "aborts"}
    ELSE CallOutcomes(key \in DOMAIN cache)

\* The call name (key, value) aborts: the process ends.  The variables of
\* the cache keep the values they had when the call was made.
Aborts(name, key, value) ==
    /\ status' = "aborted"
    /\ op' = [Call(name) EXCEPT !.key = key, !.value = value, !.ub = TRUE]
    /\ UNCHANGED <<cache, ages, last_age, capacity, hits, misses,
                   last_value, ins_run, get_calls, age_mod, lru, ref>>

\* -------------------------------------------------------------- actions
\* Cache (size_t cap): last_age (0), capacity (cap), hits (0), misses (0).
Construct(cap) ==
    /\ cache = EmptyMap
    /\ ages = EmptyMap
    /\ last_age = 0
    /\ capacity = cap
    /\ hits = 0
    /\ misses = 0
    /\ op = [name |-> "Cache", key |-> 0, value |-> 0, ret |-> FALSE,
             out |-> 0, stats |-> <<0, 0>>, evicted |-> << >>,
             trimmed |-> {}, wrap |-> FALSE, ub |-> FALSE, before |-> 0]
    /\ last_value = [k \in AllKeys |-> 0]
    /\ ins_run = FreshRun
    /\ get_calls = 0
    /\ lru = << >>
    /\ ref = RefInit
    /\ status = "ok"

Init ==
    /\ \E cap \in Caps : Construct(cap)
    /\ age_mod = AgeMod
    /\ scenario = NoScenario

\* One call of get (key, value *) that comes to outcome, history included.
GetCall(key, outcome) ==
    IF outcome = "aborts" THEN Aborts("get aborted", key, 0)
    ELSE
    /\ get_calls' = get_calls + 1
    /\ LET r == get(key)
       IN  /\ cache' = r.cache
           /\ ages' = r.ages
           /\ last_age' = r.last_age
           /\ hits' = r.hits
           /\ misses' = r.misses
           /\ op' = [Call("get") EXCEPT !.key = key, !.ret = r.ret,
                        !.out = r.out, !.wrap = r.wrap, !.ub = r.ub]
           /\ ins_run' = RunAfter("get", key, r.wrap, r.cache)
           /\ last_value' = ValuesAfter("get", key, 0, r.cache)
           /\ lru' = LruAfter("get", key, r.ret, r.cache)
           /\ ref' = RefAfter("get", key, 0, r.wrap, capacity)
           /\ status' = IF r.ub THEN "damaged" ELSE status
    /\ UNCHANGED <<capacity, age_mod>>

\* One call of insert (key, value) that comes to outcome, history included.
InsertCall(key, value, outcome) ==
    IF outcome = "aborts" THEN Aborts("insert aborted", key, value)
    ELSE
    /\ LET r == insert(key, value)
       IN  /\ cache' = r.cache
           /\ ages' = r.ages
           /\ last_age' = r.last_age
           /\ op' = [Call("insert") EXCEPT !.key = key, !.value = value,
                        !.evicted = r.evicted, !.trimmed = r.trimmed,
                        !.wrap = r.wrap, !.ub = r.ub]
           /\ ins_run' = RunAfter("insert", key, r.wrap, r.cache)
           /\ last_value' = ValuesAfter("insert", key, value, r.cache)
           /\ lru' = LruAfter("insert", key, FALSE, r.cache)
           /\ ref' = RefAfter("insert", key, value, r.wrap, capacity)
    /\ UNCHANGED <<capacity, hits, misses, get_calls, age_mod, status>>

Get ==
    \E key \in Keys : \E outcome \in GetOutcomes(key) :
        /\ get_calls < MaxGets
        /\ GetCall(key, outcome)
        /\ UNCHANGED scenario

\* insert allocates a node of ages at least.
Insert ==
    \E key \in Keys, value \in Values : \E outcome \in CallOutcomes(TRUE) :
        /\ InsertCall(key, value, outcome)
        /\ UNCHANGED scenario

\* clear () frees the nodes of both maps, when there are any.
Clear ==
    \E outcome \in CallOutcomes(DOMAIN cache # {} \/ DOMAIN ages # {}) :
        /\ IF outcome = "aborts" THEN Aborts("clear aborted", 0, 0)
           ELSE
           /\ LET r == clear
              IN  /\ cache' = r.cache
                  /\ ages' = r.ages
                  /\ last_age' = r.last_age
                  /\ capacity' = r.capacity
                  /\ hits' = r.hits
                  /\ misses' = r.misses
                  /\ ins_run' = RunAfter("clear", 0, FALSE, r.cache)
                  /\ last_value' = ValuesAfter("clear", 0, 0, r.cache)
                  /\ lru' = LruAfter("clear", 0, FALSE, r.cache)
                  /\ ref' = RefAfter("clear", 0, 0, FALSE, capacity)
           /\ op' = Call("clear")
           /\ UNCHANGED <<get_calls, age_mod, status>>
        /\ UNCHANGED scenario

\* set_capacity frees nodes when it has to trim.
SetCapacity ==
    \E new_cap \in Caps :
      \E outcome \in CallOutcomes(MapSize(cache) > new_cap) :
        /\ IF outcome = "aborts"
           THEN Aborts("set_capacity aborted", 0, new_cap)
           ELSE
           /\ LET r == set_capacity(new_cap)
              IN  /\ cache' = r.cache
                  /\ ages' = r.ages
                  /\ capacity' = r.capacity
                  /\ op' = [Call("set_capacity") EXCEPT !.value = new_cap,
                               !.evicted = r.evicted, !.trimmed = r.trimmed,
                               !.ub = r.ub]
                  /\ ins_run' = RunAfter("set_capacity", 0, FALSE, r.cache)
                  /\ last_value' = ValuesAfter("set_capacity", 0, 0, r.cache)
                  /\ lru' = LruAfter("set_capacity", 0, FALSE, r.cache)
                  /\ ref' = RefAfter("set_capacity", 0, 0, FALSE, new_cap)
           /\ UNCHANGED <<last_age, hits, misses, get_calls, age_mod, status>>
        /\ UNCHANGED scenario

GetCapacity ==
    /\ status # "aborted"
    /\ op' = [Call("get_capacity") EXCEPT !.out = get_capacity]
    /\ UNCHANGED <<cache, ages, last_age, capacity, hits, misses,
                   last_value, ins_run, get_calls, age_mod, lru, ref,
                   scenario, status>>

GetStats ==
    /\ status # "aborted"
    /\ op' = [Call("get_stats") EXCEPT !.stats = get_stats]
    /\ UNCHANGED <<cache, ages, last_age, capacity, hits, misses,
                   last_value, ins_run, get_calls, age_mod, lru, ref,
                   scenario, status>>

Next ==
    \/ Get
    \/ Insert
    \/ Clear
    \/ SetCapacity
    \/ GetCapacity
    \/ GetStats

Spec == Init /\ [][Next]_vars

\* ------------------------------------------------------- ScenarioSpec
\* A fresh cache of capacity 2 with a wide age_type, and any four pairwise
\* distinct keys for A, B, C, D.
ScenarioInit ==
    /\ Construct(2)
    /\ age_mod = WideAgeMod
    /\ \E ks \in [1..4 -> ScenarioKeys] :
          /\ \A i, j \in 1..4 : i # j => ks[i] # ks[j]
          /\ scenario = [keys |-> ks, pc |-> 0]

\* The next call of the scenario, when it is an insert.
ScenarioInsert ==
    /\ scenario.pc < Len(ScenarioCalls)
    /\ LET call == ScenarioCalls[scenario.pc + 1]
       IN  /\ call.name = "insert"
           /\ \E outcome \in CallOutcomes(TRUE) :
                 InsertCall(scenario.keys[call.key], call.value, outcome)
    /\ scenario' = [scenario EXCEPT !.pc = @ + 1]

\* The next call of the scenario, when it is a get.
ScenarioGet ==
    /\ scenario.pc < Len(ScenarioCalls)
    /\ LET call == ScenarioCalls[scenario.pc + 1]
       IN  /\ call.name = "get"
           /\ \E outcome \in GetOutcomes(scenario.keys[call.key]) :
                 GetCall(scenario.keys[call.key], outcome)
    /\ scenario' = [scenario EXCEPT !.pc = @ + 1]

ScenarioNext ==
    \/ ScenarioInsert
    \/ ScenarioGet

ScenarioSpec == ScenarioInit /\ [][ScenarioNext]_vars

\* ================================================================ claims

\* C1 (capacity bound): after every call returns, the number of entries of
\* the forward index (cache) is at most the current capacity.
C1_CapacityBound == MapSize(cache) <= capacity

\* An insert into a full cache of capacity >= 1 that had to evict.
C1_Witness ==
    /\ op.name = "insert"
    /\ capacity >= 1
    /\ op.before = capacity
    /\ Len(op.evicted) = 1
    /\ MapSize(cache) = capacity

\* C2 (bijection): cache and ages have the same number of entries, key k
\* has age a in cache exactly when age a maps to k in ages: no orphaned age
\* and no key in only one of the maps.  Stated as the claim states it; the
\* overflow branch of get breaks it.
C2_Bijection ==
    /\ MapSize(cache) = MapSize(ages)
    /\ \A k \in DOMAIN cache :
          cache[k].age \in DOMAIN ages /\ ages[cache[k].age] = k
    /\ \A a \in DOMAIN ages :
          ages[a] \in DOMAIN cache /\ cache[ages[a]].age = a

\* The last c keys of the run of inserts, and the key that insert number
\* Len(keys) of the run has to evict (the oldest of the c + 1 latest).
RunSurvivors == 
    {ins_run.keys[i] :
        i \in (Len(ins_run.keys) - capacity + 1)..Len(ins_run.keys)}
RunVictim == ins_run.keys[Len(ins_run.keys) - capacity]

\* C3 as stated (LRU eviction order on inserts): from an empty cache (no
\* live entry) with capacity c >= 1, after n > c inserts of pairwise distinct
\* keys with no get, clear or set_capacity in between, the live keys are
\* exactly the c keys inserted last, and each insert beyond the c-th evicted
\* exactly the oldest key still live (k1, k2, ... in insertion order).  (A
\* run in which an insert took the overflow branch is not held against the
\* claim: the overflow policy purges both maps there.)
C3_Original ==
    (ins_run.valid /\ ~ins_run.wrapped /\ capacity >= 1
        /\ Len(ins_run.keys) > capacity)
    => /\ DOMAIN cache = RunSurvivors
       /\ op.name = "insert" => op.evicted = <<RunVictim>>

\* C4 as stated (recency refresh): a get (k) that hits leaves k live with
\* age last_age + 1, larger than the age of every other live entry, and
\* ages with k's old mapping replaced by the new one; and when a hit on k
\* left the cache full with at least two entries, the next insert of an
\* absent key evicts a key other than k.  (An insert that itself takes the
\* overflow branch is not held against the second part.)
C4_Original ==
    [][ /\ (op'.name = "get" /\ op'.ret)
            => LET k == op'.key
               IN  /\ k \in DOMAIN cache'
                   /\ cache'[k].age = last_age + 1
                   /\ \A j \in (DOMAIN cache') \ {k} :
                         cache'[j].age < cache'[k].age
                   /\ ages' = MapInsert(MapErase(ages, cache[k].age),
                                        last_age + 1, k)
        /\ (/\ op.name = "get" /\ op.ret
            /\ MapSize(cache) = capacity /\ MapSize(cache) >= 2
            /\ op'.name = "insert" /\ ~op'.wrap
            /\ op'.key \notin DOMAIN cache)
            => /\ op.key \in DOMAIN cache'
               /\ Len(op'.evicted) = 1
               /\ op'.evicted[1] # op.key
      ]_vars

\* C5 (miss behaviour): get (k) for a key k not in cache returns false, adds
\* exactly one to misses and leaves cache, ages, last_age, capacity and
\* hits as they were.
C5_Miss ==
    [][ (op'.name = "get" /\ op'.key \notin DOMAIN cache)
        => /\ op'.ret = FALSE
           /\ misses' = misses + 1
           /\ UNCHANGED <<cache, ages, last_age, capacity, hits>>
      ]_vars

\* A miss in a non-empty cache that has already served a hit.
C5_Witness ==
    /\ op.name = "get" /\ ~op.ret
    /\ op.key \notin DOMAIN cache
    /\ MapSize(cache) >= 1
    /\ hits >= 1 /\ misses >= 1

\* C6 (clear): after clear () both maps are empty and last_age is 0, while
\* capacity, hits and misses are what they were before the call.
C6_Clear ==
    [][ op'.name = "clear"
        => /\ DOMAIN cache' = {} /\ DOMAIN ages' = {}
           /\ last_age' = 0
           /\ UNCHANGED <<capacity, hits, misses>>
      ]_vars

\* clear () of a non-empty cache whose counters are all non-zero.
C6_Witness ==
    /\ op.name = "clear" /\ op.before >= 1
    /\ DOMAIN cache = {} /\ DOMAIN ages = {} /\ last_age = 0
    /\ hits >= 1 /\ misses >= 1 /\ capacity >= 1

Min(x, y) == IF x <= y THEN x ELSE y

\* C7 as stated (resize eviction): set_capacity (n) called with s live
\* entries leaves exactly min (s, n) of them, those with the highest ages,
\* value and age unchanged; with n >= s nothing is evicted; last_age, hits
\* and misses are not changed.
C7_Original ==
    [][ op'.name = "set_capacity"
        => /\ MapSize(cache') = Min(MapSize(cache), capacity')
           /\ DOMAIN cache' \subseteq DOMAIN cache
           /\ \A k \in DOMAIN cache' : cache'[k] = cache[k]
           /\ \A k \in DOMAIN cache' : \A j \in (DOMAIN cache) \ DOMAIN cache' :
                 cache[j].age < cache[k].age
           /\ capacity' >= MapSize(cache) => cache' = cache
           /\ UNCHANGED <<last_age, hits, misses>>
      ]_vars

\* C8 as stated (lookup result): get (k) returns true exactly when k is in
\* cache; on a hit the value delivered is the one handed to the latest
\* insert of k, and the hit changes no stored value and no key's membership.
C8_Original ==
    [][ op'.name = "get"
        => /\ op'.ret <=> op'.key \in DOMAIN cache
           /\ op'.ret
                => /\ op'.out = last_value[op'.key]
                   /\ DOMAIN cache' = DOMAIN cache
                   /\ \A j \in DOMAIN cache : cache'[j].value = cache[j].value
      ]_vars

\* C8 as amended: the same, except that stored values and membership are
\* unchanged only by a hit that does not take the overflow branch.
C8_Lookup ==
    [][ op'.name = "get"
        => /\ op'.ret <=> op'.key \in DOMAIN cache
           /\ op'.ret => op'.out = last_value[op'.key]
           /\ (op'.ret /\ ~op'.wrap)
                => /\ DOMAIN cache' = DOMAIN cache
                   /\ \A j \in DOMAIN cache : cache'[j].value = cache[j].value
      ]_vars

\* A hit on a key that was inserted twice, with the value of the second
\* insert delivered, in a cache holding another key as well.
C8_Witness ==
    /\ op.name = "get" /\ op.ret /\ ~op.wrap
    /\ op.key \in DOMAIN cache
    /\ op.out = NumValues
    /\ MapSize(cache) >= 2
    /\ \E j \in DOMAIN cache : cache[j].value # op.out

\* C9 as stated (zero capacity): while capacity is 0, both maps are empty
\* after every insert, and every get returns false and changes nothing but
\* misses, which it increments.
C9_Original ==
    [][ /\ (op'.name = "insert" /\ capacity = 0)
            => DOMAIN cache' = {} /\ DOMAIN ages' = {}
        /\ (op'.name = "get" /\ capacity = 0)
            => /\ op'.ret = FALSE
               /\ misses' = misses + 1
               /\ UNCHANGED <<cache, ages, last_age, capacity, hits>>
      ]_vars

\* C10 (statistics): hits and misses never decrease; insert, clear,
\* set_capacity, get_capacity and get_stats leave both unchanged; every get
\* adds one to exactly one of them (hits on a hit, misses on a miss); so
\* hits + misses is the number of get calls made since construction.
C10_Stats ==
    /\ [](hits + misses = get_calls)
    /\ [][ /\ hits' >= hits /\ misses' >= misses
           /\ op'.name \in {"insert", "clear", "set_capacity",
                            "get_capacity", "get_stats"}
                => UNCHANGED <<hits, misses>>
           /\ (op'.name = "get" /\ op'.ret)
                => hits' = hits + 1 /\ misses' = misses
           /\ (op'.name = "get" /\ ~op'.ret)
                => misses' = misses + 1 /\ hits' = hits
           /\ get_calls' # get_calls => op'.name = "get"
         ]_vars

\* A hit has just been counted, after another hit and a miss.
C10_Witness ==
    /\ op.name = "get" /\ op.ret
    /\ hits >= 2 /\ misses >= 1
    /\ get_calls = hits + misses

\* The values stored for the live keys.
LiveValues == [k \in DOMAIN cache |-> cache[k].value]

\* C11 (end-to-end scenario): on a fresh cache of capacity 2, after
\* insert (A, 1), insert (B, 2), insert (C, 3) the live entries are exactly
\* B -> 2 and C -> 3; then get (A) misses (hits 0, misses 1); then get (B)
\* hits and delivers 2 (hits 1, misses 1); then insert (D, 4) evicts C and
\* leaves exactly B -> 2 and D -> 4.
C11_Scenario ==
    LET A == scenario.keys[1]
        B == scenario.keys[2]
        C == scenario.keys[3]
        D == scenario.keys[4]
    IN  /\ scenario.pc = 3
            => LiveValues = [k \in {B, C} |-> IF k = B THEN 2 ELSE 3]
        /\ scenario.pc = 4
            => /\ op.name = "get" /\ op.key = A /\ ~op.ret
               /\ hits = 0 /\ misses = 1
        /\ scenario.pc = 5
            => /\ op.name = "get" /\ op.key = B /\ op.ret /\ op.out = 2
               /\ hits = 1 /\ misses = 1
        /\ scenario.pc = 6
            => /\ op.name = "insert" /\ op.key = D
               /\ op.evicted = <<C>>
               /\ LiveValues = [k \in {B, D} |-> IF k = B THEN 2 ELSE 4]

\* The six calls of the scenario have been made, none of them through the
\* overflow branch, and the cache is full.
C11_Witness ==
    /\ scenario.pc = 6
    /\ op.name = "insert" /\ op.value = 4 /\ ~op.wrap
    /\ MapSize(cache) = 2 /\ capacity = 2
    /\ last_age = 5

\* The recency list a trimming call starts from: lru with the inserted key
\* moved to the back (alone, when the insert went through the overflow
\* purge); lru itself for set_capacity.
LruBeforeTrim(call) ==
    IF call.name = "insert"
    THEN IF call.wrap THEN <<call.key>>
         ELSE Append(SelectSeq(lru, LAMBDA k : k # call.key), call.key)
    ELSE lru

\* C12 as stated (recency order): in every reachable state, after an
\* overflow too, the live entry of least age is the live key whose latest
\* insert or hit is the oldest, and the live entry of greatest age is the key
\* inserted or hit last; hence every eviction by trimming removes the least
\* recently used live key.
C12_Original ==
    /\ [](DOMAIN cache # {}
            => /\ \A k \in DOMAIN cache :
                     cache[k].age \in DOMAIN ages /\ ages[cache[k].age] = k
               /\ \A k \in DOMAIN cache :
                     cache[Head(lru)].age <= cache[k].age
               /\ \A k \in DOMAIN cache :
                     cache[k].age <= cache[lru[Len(lru)]].age)
    /\ [][ op'.name \in {"insert", "set_capacity"}
            => \A i \in 1..Len(op'.evicted) :
                  op'.evicted[i] = LruBeforeTrim(op')[i]
         ]_vars

\* C13 (age overflow policy): when an insert or a get that hits moves
\* last_age past its maximum (the new value is less than the old one), both
\* maps are emptied before the call goes on: when it returns, neither map
\* holds anything but what the call itself put there under the new age (no
\* entry of before the call is left); and after such an insert (k, v) with
\* capacity >= 1, cache is exactly k -> (v, new age) and ages exactly
\* new age -> k.
C13_Overflow ==
    [][ (op'.name \in {"insert", "get"} /\ last_age' < last_age)
        => /\ \A k \in DOMAIN cache' :
                 k = op'.key /\ cache'[k].age = last_age'
           /\ \A a \in DOMAIN ages' :
                 a = last_age' /\ ages'[a] = op'.key
           /\ (op'.name = "insert" /\ capacity >= 1)
                => /\ cache' = (op'.key :>
                                  [value |-> op'.value, age |-> last_age'])
                   /\ ages' = (last_age' :> op'.key)
      ]_vars

\* An insert has just gone through the overflow branch in a full cache of
\* two entries: the key inserted alone is left, under age 0.
C13_Witness ==
    /\ op.name = "insert" /\ op.wrap
    /\ op.before = 2 /\ capacity = 2
    /\ last_age = 0
    /\ DOMAIN cache = {op.key}
    /\ DOMAIN ages = {0}

\* C14 (distinct ages): no two live entries carry the same age, and every
\* age in the reverse index is at most last_age; in every reachable state,
\* after clear () and after an overflow too.
C14_DistinctAges ==
    /\ \A j, k \in DOMAIN cache : j # k => cache[j].age # cache[k].age
    /\ \A a \in DOMAIN ages : a <= last_age

\* After an overflow: two live entries, three elements in the reverse
\* index, the youngest of them of age last_age.
C14_Witness ==
    /\ ~ref.ok
    /\ MapSize(cache) = 2
    /\ MapSize(ages) = 3
    /\ last_age \in DOMAIN ages
    /\ last_age >= 2

\* C15 as stated (lookups keep the live entries): for every reachable
\* state and every key, the number of entries of cache and the set of live
\* keys are the same after get (key) as before, hit or miss; only insert and
\* set_capacity trim (get, get_capacity and get_stats remove no key).
C15_Original ==
    [][ op'.name \in {"get", "get_capacity", "get_stats"}
        => /\ MapSize(cache') = MapSize(cache)
           /\ DOMAIN cache' = DOMAIN cache
           /\ op'.evicted = << >> /\ op'.trimmed = {}
      ]_vars

\* C15 as amended: the same, except for a get whose hit moves last_age
\* past its maximum (that hit goes through the overflow purge).
C15_Lookup ==
    [][ (/\ op'.name \in {"get", "get_capacity", "get_stats"}
         /\ ~(last_age' < last_age))
        => /\ MapSize(cache') = MapSize(cache)
           /\ DOMAIN cache' = DOMAIN cache
           /\ op'.evicted = << >> /\ op'.trimmed = {}
      ]_vars

\* A hit without overflow in a full cache of two entries, both still live.
C15_Witness ==
    /\ op.name = "get" /\ op.ret /\ ~op.wrap
    /\ op.before = 2
    /\ MapSize(cache) = 2 /\ capacity = 2
    /\ last_age = cache[op.key].age

\* What insert (k, v) has to leave behind when k was live, k, v being the
\* arguments of the call just made and the fresh age the age counter plus
\* one, in age_type.
InsertPresentFrame ==
    LET k == op'.key
        fresh == (last_age + 1) % age_mod
    IN  k \in DOMAIN cache
        => /\ k \in DOMAIN cache'
           /\ cache'[k] = [value |-> op'.value, age |-> fresh]
           /\ cache[k].age \notin DOMAIN ages'
           /\ fresh \in DOMAIN ages' /\ ages'[fresh] = k
           /\ \A j \in (DOMAIN cache) \ {k} :
                 j \in DOMAIN cache' /\ cache'[j] = cache[j]
           /\ MapSize(cache') = MapSize(cache)
           /\ MapSize(ages') = MapSize(ages)
           /\ op'.evicted = << >> /\ op'.trimmed = {}

\* What insert (k, v) has to leave behind when it finds no entry for k (k
\* was not live, or the overflow purge has just emptied the maps): one entry
\* more in each map than there was to begin with (none, after a purge),
\* the entries trimming removed counted back in; the fresh age did not
\* belong to ages before; and k, unless trimming removed it again, is live
\* with value v under the fresh age, which ages maps to k.
InsertAbsentFrame ==
    LET k == op'.key
        fresh == (last_age + 1) % age_mod
        purged == fresh < last_age
        size_c == IF purged THEN 0 ELSE MapSize(cache)
        size_a == IF purged THEN 0 ELSE MapSize(ages)
    IN  (k \notin DOMAIN cache \/ purged)
        => /\ MapSize(cache') + Len(op'.evicted) = size_c + 1
           /\ MapSize(ages') + Cardinality(op'.trimmed) = size_a + 1
           /\ purged \/ fresh \notin DOMAIN ages
           /\ \A e \in op'.trimmed : e.age = fresh => e.key = k
           /\ fresh \in DOMAIN ages' => ages'[fresh] = k
           /\ k \in DOMAIN cache'
                 => /\ cache'[k] = [value |-> op'.value, age |-> fresh]
                    /\ fresh \in DOMAIN ages' /\ ages'[fresh] = k

\* C16 as stated (insert of a present key): when k is live and the cache
\* satisfies its invariants (size within capacity, the two maps in
\* bijection), insert (k, v) overwrites k's value with v, replaces k's age
\* by the age counter plus one, the stale reverse mapping removed, leaves
\* value and age of every other live entry unchanged, keeps the number of
\* live entries and evicts nothing; insert of an absent key adds exactly one
\* entry to each map, under the fresh age, before trimming.
C16_Original ==
    [][ op'.name = "insert"
        => /\ (C1_CapacityBound /\ C2_Bijection) => InsertPresentFrame
           /\ InsertAbsentFrame
      ]_vars

\* C16 as amended: the part about a live key holds for an insert that does
\* not move last_age past its maximum (an insert that does goes through the
\* overflow purge); the part about an absent key holds for every insert, in
\* every reachable state.
C16_InsertFrame ==
    [][ op'.name = "insert"
        => /\ (C1_CapacityBound /\ C2_Bijection /\ ~(last_age' < last_age))
                => InsertPresentFrame
           /\ InsertAbsentFrame
      ]_vars

\* insert (k, v) without overflow on a full cache of two entries in which k
\* was live with another value: both entries are live, k under v and the
\* youngest age, and the maps are in bijection.
C16_Witness ==
    /\ op.name = "insert" /\ ~op.wrap
    /\ op.before = 2 /\ capacity = 2
    /\ MapSize(cache) = 2 /\ op.evicted = << >>
    /\ C2_Bijection
    /\ cache[op.key] = [value |-> op.value, age |-> last_age]
    /\ ins_run = NoRun

\* C17 (age counter): last_age is 0 at construction; every insert and every
\* get that hits adds exactly one to it (in age_type: from the greatest
\* value the sum is 0); a miss, set_capacity, get_capacity and get_stats
\* leave it unchanged; clear () is the only call that resets it to 0; and
\* every insert or hit that does not overflow leaves it strictly greater
\* than it was.
C17_AgeCounter ==
    /\ [](op.name = "Cache" => last_age = 0)
    /\ [][ /\ (op'.name = "insert" \/ (op'.name = "get" /\ op'.ret))
               => /\ last_age' = (last_age + 1) % age_mod
                  /\ (last_age < age_mod - 1) => (last_age' > last_age)
           /\ ((op'.name = "get" /\ ~op'.ret)
                 \/ op'.name \in {"set_capacity", "get_capacity",
                                  "get_stats"})
               => last_age' = last_age
           /\ op'.name = "clear" => last_age' = 0
           /\ (last_age' < last_age /\ last_age < age_mod - 1)
               => op'.name = "clear"
         ]_vars

\* A hit has just advanced the counter from 1 to 2, after an earlier
\* overflow and a miss.
C17_Witness ==
    /\ op.name = "get" /\ op.ret /\ ~op.wrap
    /\ last_age = 2
    /\ cache[op.key].age = 2
    /\ ~ref.ok
    /\ misses >= 1

\* The live entries as (key, value) pairs, by ascending age.
RECURSIVE ByAge(_)
ByAge(c) ==
    IF DOMAIN c = {} THEN << >>
    ELSE LET k == CHOOSE x \in DOMAIN c :
                     \A y \in DOMAIN c : c[x].age <= c[y].age
         IN  <<[key |-> k, value |-> c[k].value]>> \o ByAge(MapErase(c, k))

\* C18 (reference model): as long as no call has gone through the
\* overflow branch, for every sequence of insert, get, clear and
\* set_capacity calls the live keys by ascending age, with their values, are
\* the list of the reference model (insert and hit move or append the key
\* to the back, insert sets the value, clear empties the list, insert and
\* set_capacity drop the front while the list is longer than the capacity);
\* every get returns and delivers what the reference lookup does, and the
\* hit and miss counts of the two agree.
C18_Refinement ==
    ref.ok
    => /\ ByAge(cache) = ref.list
       /\ hits = ref.hits /\ misses = ref.misses
       /\ op.name = "get" => (op.ret = ref.ret /\ op.out = ref.out)

\* No overflow so far; an insert has just evicted the front of a list of
\* two, after a hit and a miss.
C18_Witness ==
    /\ ref.ok
    /\ op.name = "insert" /\ Len(op.evicted) = 1
    /\ Len(ref.list) = 2
    /\ ref.list[2] = [key |-> op.key, value |-> op.value]
    /\ ref.hits >= 1 /\ ref.misses >= 1

\* C19 as stated (the inserted key survives its own insert): in every
\* reachable state with capacity >= 1, after an overflow in get or insert
\* too, when insert (k, v) returns k is live with value v, and the trimming
\* of that insert did not evict k; so a get (k) that follows immediately
\* hits and delivers v.
C19_Original ==
    [][ /\ (op'.name = "insert" /\ capacity >= 1)
            => /\ op'.key \in DOMAIN cache'
               /\ cache'[op'.key].value = op'.value
               /\ op'.key \notin SeqRange(op'.evicted)
        /\ (/\ op.name = "insert" /\ capacity >= 1
            /\ op'.name = "get" /\ op'.key = op.key)
            => op'.ret /\ op'.out = op.value
      ]_vars

\* C20 (trimming is well defined and terminates): whenever
\* trim_to_capacity runs an iteration (cache.size () > capacity), ages is not
\* empty, so ages.begin () is an element; each iteration takes that first
\* element out of ages and leaves its key out of cache; and the loop ends,
\* after no more iterations than ages had elements, with cache.size () <=
\* capacity (and, when it ran at all, with cache exactly full: it runs only
\* while cache.size () > capacity).
C20_Trim ==
    [][ op'.name \in {"insert", "set_capacity"}
        => /\ ~op'.ub
           /\ \A e \in op'.trimmed :
                 /\ e.age \notin DOMAIN ages'
                 /\ e.key \notin DOMAIN cache'
                 /\ \A a \in DOMAIN ages' : e.age < a
           /\ Cardinality(op'.trimmed) <= MapSize(ages) + 1
           /\ MapSize(cache') <= capacity'
           /\ op'.trimmed # {} => MapSize(cache') = capacity'
      ]_vars

\* An insert whose trimming ran two iterations in a cache of capacity 1:
\* the first took an element out of ages whose key was not live, the second
\* evicted the live key of the oldest age.
C20_Witness ==
    /\ op.name = "insert" /\ ~op.ub
    /\ capacity = 1
    /\ Cardinality(op.trimmed) = 2
    /\ Len(op.evicted) = 1
    /\ DOMAIN cache = {op.key}
    /\ DOMAIN ages = {last_age}

====
